---- MODULE Spec2Model ----
(***************************************************************************)
(* Model of the wikipedia-walker crawl state machine: the DB-backed queue  *)
(* (crawl_db.py), the page/link tables (models.py) and the orchestrator    *)
(* loop (walker.py, walk).  The committed store is `db`; the working copy  *)
(* of the one multi-statement transaction that can be interrupted half-way *)
(* (the persist step) is `sess`.  Every other transaction is one action.   *)
(*                                                                         *)
(* A page row carries the columns the crawl logic reads: crawl_status,     *)
(* last_enqueued_at (ORDER BY) and last_links_recorded_at (IS NULL only,   *)
(* so its value is Null or NotNull).  Of the columns that are only written *)
(* the rows carry the diagnostic ones, last_error (with last_error_at,     *)
(* always written together) and last_finished_at.  title, last_started_at, *)
(* last_crawled_at and PageLink.last_seen_at are not part of the rows.     *)
(*                                                                         *)
(* The diagnostic columns and the history variables are written only when  *)
(* their name is in `recording`, which a specification fixes in its        *)
(* initial state; otherwise they stay at their initial value.  Spec        *)
(* records none of them, and SpecClaims, SpecErrors, ... record what their *)
(* properties refer to.  No guard reads a recorded value, except that the  *)
(* clock is not read below a recorded enqueue_now; a reading below a time  *)
(* that was written nowhere is indistinguishable from an earlier call.     *)
(*                                                                         *)
(* Further specifications apply one operation to all of its inputs:        *)
(* SpecUpsert the edge upsert of record_links on a page_links table with   *)
(* row ids and last_seen_at, SpecQueue the claim on any pages table,       *)
(* SpecDijkstra dijkstra_shortest_path (dijkstra.py) on any small graph.   *)
(* SpecLive is the walk without the kill step, with weak fairness on the   *)
(* steps of the running process.  SpecWorkers runs walk in two processes   *)
(* on one store, with the claim split into its read and its write.         *)
(* SpecRefs applies get_or_create_page to tables whose rows carry a title, *)
(* and SpecCanonical applies the persist of main.py, the variant of the    *)
(* program that keys pages by title, to such tables.  SpecPersist applies  *)
(* persist_fetched_links to them, with a fetch result whose page id need   *)
(* not be the claimed one.  SpecCrawl is the walk of one process on a      *)
(* fixed wiki, the map `wiki.links` from a page to the links every fetch   *)
(* of it returns, without kills and exceptions; SpecRestarts adds the kill *)
(* of the process and the start of the next run.                           *)
(***************************************************************************)
EXTENDS Integers, FiniteSets, Sequences, TLC

\* ---- bounds of the model -------------------------------------------------
NumPages == 2
MaxClock == 2
MaxBudget == 1
MaxUpserts == 3
NumNodes == 3
MaxEdges == 4

\* ---- vocabulary ----------------------------------------------------------
Pages == 1..NumPages

\* SQL NULL for a timestamp column and Python None for a page id.
Null == 0

\* A timestamp that is only ever tested with IS NULL / IS NOT NULL.
NotNull == 1

PageCrawlStatus == {"queued", "in_progress", "done", "error"}

VARIABLES
    db,          \* committed store: [pages |-> rows by mw_page_id, links |-> link rows]
    sess,        \* uncommitted working copy of the open persist transaction
    todo,        \* links of the fetch result not yet handled by record_links
    fetch_links, \* links of the fetch result (fetch.links)
    enqueue_now, \* `now` of the latest enqueue_page call in the open persist
    recording,   \* names of the columns / history variables being recorded
    pc,          \* position of the process in walk()
    cur,         \* page_id claimed by the current iteration
    visited,     \* processed-page counter of the run
    max_pages,   \* page budget of the run (0 = unlimited)
    outcome,     \* how the process last ended / "running"
    exc_at,      \* where in the try block the pending exception was raised
    last_claim,  \* history: page id returned by the most recent successful claim
    requeued,    \* history: what put last_claim back to "queued" since it was claimed
    recorded,    \* history: pages whose links were committed at some point
    run_errors,  \* history: pages this run marked "error" and that still are
    seed_page,   \* history: start page of the startup, until the first claim
    page_links,  \* SpecUpsert: the page_links table, rows with id and last_seen_at
    upserts,     \* SpecUpsert: number of edge upserts made so far
    last_upsert, \* SpecUpsert: arguments of the latest edge upsert
    search,      \* SpecDijkstra: one call of dijkstra_shortest_path
    workers,     \* SpecWorkers: position and claimed page of each of two processes
    table,       \* SpecRefs, SpecCanonical: a pages table with titles, and its edges
    wiki         \* SpecCrawl, SpecRestarts: the links of every page, the start page,
                 \* and whether a run has been killed

upsert_vars == <<page_links, upserts, last_upsert>>

hist == <<last_claim, requeued, recorded, run_errors, seed_page>>

vars == <<db, sess, todo, fetch_links, enqueue_now, recording, pc, cur, visited, max_pages,
          outcome, exc_at, last_claim, requeued, recorded, run_errors,
          seed_page, page_links, upserts, last_upsert, search, workers,
          table, wiki>>

\* ---- models.py -----------------------------------------------------------

\* Page(mw_page_id=..., title=...) with the column defaults.
NewPage ==
    [crawl_status |-> "queued",
     last_enqueued_at |-> Null,
     last_links_recorded_at |-> Null,
     last_error |-> Null,
     last_finished_at |-> Null]

\* The value written to a recorded variable: new if it is being recorded.
Rec(name, new, old) == IF name \in recording THEN new ELSE old

\* A written row as the specification stores it.
Stored(row) ==
    Rec("diagnostics", row,
        [row EXCEPT !.last_error = Null, !.last_finished_at = Null])

\* PageLink(from_page=..., to_page=...)
NewPageLink(from, to) ==
    [from_page_id |-> from, to_page_id |-> to]

EmptyStore == [pages |-> <<>>, links |-> {}]

\* The latest timestamp stored in a set of page rows (the first tick if none).
Latest(rows) ==
    LET ts == {rows[p].last_enqueued_at : p \in DOMAIN rows} \cup {1}
    IN  CHOOSE t \in ts : \A u \in ts : u <= t

\* utc_now(): the clock is monotonic, so a call returns a time not before
\* any timestamp written so far, committed or in the open session.
utc_now ==
    {t \in 1..MaxClock : /\ t >= Latest(db.pages)
                         /\ t >= Latest(sess.pages)
                         /\ t >= enqueue_now}

\* ---- crawl_db.py ---------------------------------------------------------

\* get_or_create_page that inserts a new row whether or not one exists.
get_or_create_page_fresh(rows, id) ==
    [q \in DOMAIN rows \cup {id} |-> IF q = id THEN NewPage ELSE rows[q]]

get_or_create_page(rows, id) ==
    IF id \in DOMAIN rows THEN rows ELSE rows @@ (id :> NewPage)

\* enqueue_page that leaves a page in status error alone.
enqueue_page_skips_error(rows, id, now) ==
    LET r1 == get_or_create_page(rows, id)
        page == r1[id]
    IN  IF page.last_links_recorded_at # Null
        THEN [r1 EXCEPT ![id].crawl_status = "done"]
        ELSE IF page.crawl_status \notin {"done", "in_progress", "error"}
             THEN [r1 EXCEPT ![id].crawl_status = "queued",
                             ![id].last_enqueued_at = now]
             ELSE r1

\* enqueue_page that refreshes only on a transition into queued.
enqueue_page_skips_queued(rows, id, now) ==
    LET r1 == get_or_create_page(rows, id)
        page == r1[id]
    IN  IF page.last_links_recorded_at # Null
        THEN [r1 EXCEPT ![id].crawl_status = "done"]
        ELSE IF /\ page.crawl_status \notin {"done", "in_progress"}
                /\ ~(page.crawl_status = "queued" /\ page.last_enqueued_at # Null)
             THEN [r1 EXCEPT ![id].crawl_status = "queued",
                             ![id].last_enqueued_at = now]
             ELSE r1

\* enqueue_page that excludes only done pages.
enqueue_page_requeues_in_progress(rows, id, now) ==
    LET r1 == get_or_create_page(rows, id)
        page == r1[id]
    IN  IF page.last_links_recorded_at # Null
        THEN [r1 EXCEPT ![id].crawl_status = "done"]
        ELSE IF page.crawl_status \notin {"done"}
             THEN [r1 EXCEPT ![id].crawl_status = "queued",
                             ![id].last_enqueued_at = now]
             ELSE r1

\* enqueue_page without the crawl-once branch.
enqueue_page_no_crawl_once(rows, id, now) ==
    LET r1 == get_or_create_page(rows, id)
        page == r1[id]
    IN  IF page.crawl_status \notin {"done", "in_progress"}
        THEN [r1 EXCEPT ![id].crawl_status = "queued",
                        ![id].last_enqueued_at = now]
        ELSE r1

enqueue_page(rows, id, now) ==
    LET r1 == get_or_create_page(rows, id)
        page == r1[id]
    IN  IF page.last_links_recorded_at # Null
        THEN [r1 EXCEPT ![id].crawl_status = "done"]
        ELSE IF page.crawl_status \notin {"done", "in_progress"}
             THEN [r1 EXCEPT ![id].crawl_status = "queued",
                             ![id].last_enqueued_at = now]
             ELSE r1

\* One iteration of the loop of record_links: get_or_create + enqueue the
\* target, then insert the edge unless it exists.
\* record_link that upserts the page and enqueues it but adds no edge.
record_link_no_edge(st, from, to, now) ==
    [st EXCEPT !.pages = enqueue_page(get_or_create_page(st.pages, to), to, now)]

\* record_link that stores no edge from a page to itself.
record_link_no_self_edge(st, from, to, now) ==
    LET r1 == enqueue_page(get_or_create_page(st.pages, to), to, now)
    IN  [pages |-> r1,
         links |-> IF from = to THEN st.links
                   ELSE st.links \cup {NewPageLink(from, to)}]

record_link(st, from, to, now) ==
    LET r1 == enqueue_page(get_or_create_page(st.pages, to), to, now)
        hit == {l \in st.links : l.from_page_id = from /\ l.to_page_id = to}
    IN  [pages |-> r1,
         links |-> IF hit = {}
                   THEN st.links \cup {NewPageLink(from, to)}
                   ELSE st.links]

\* ORDER BY last_enqueued_at ASC NULLS LAST, mw_page_id ASC
\* The ORDER BY with ascending NULLs first.
OrderBefore_nulls_first(rows, a, b) ==
    LET ka == rows[a].last_enqueued_at
        kb == rows[b].last_enqueued_at
    IN  IF ka = kb THEN a < b ELSE ka < kb

OrderBefore(rows, a, b) ==
    LET ka == rows[a].last_enqueued_at
        kb == rows[b].last_enqueued_at
    IN  IF ka = kb THEN a < b
        ELSE IF ka = Null THEN FALSE
        ELSE IF kb = Null THEN TRUE
        ELSE ka < kb

\* The queue without its WHERE clause: every row.
Claimable_any_row(rows) == DOMAIN rows

\* The queue filter without the status predicate.
Claimable_any_status(rows) ==
    {p \in DOMAIN rows : rows[p].last_links_recorded_at = Null}

Claimable(rows) ==
    {p \in DOMAIN rows : /\ rows[p].crawl_status = "queued"
                         /\ rows[p].last_links_recorded_at = Null}

next_queued_page(rows) ==
    IF Claimable(rows) = {} THEN Null
    ELSE CHOOSE p \in Claimable(rows) :
            \A q \in Claimable(rows) \ {p} : OrderBefore(rows, p, q)

get_outgoing_pages(st, id) ==
    {l.to_page_id : l \in {k \in st.links : k.from_page_id = id}} \cap DOMAIN st.pages

RECURSIVE enqueue_pages(_, _, _)
enqueue_pages(rows, ids, now) ==
    IF ids = {} THEN rows
    ELSE LET id == CHOOSE x \in ids : TRUE
         IN  enqueue_pages(enqueue_page(rows, id, now), ids \ {id}, now)

\* seed_from_start_page without the loop over the outgoing pages.
seed_from_start_page_no_neighbours(st, start_page, now) ==
    LET r1 == get_or_create_page(st.pages, start_page)
    IN  IF r1[start_page].last_links_recorded_at = Null
        THEN enqueue_page(r1, start_page, now)
        ELSE r1

seed_from_start_page(st, start_page, now) ==
    LET r1 == get_or_create_page(st.pages, start_page)
    IN  IF r1[start_page].last_links_recorded_at = Null
        THEN enqueue_page(r1, start_page, now)
        ELSE enqueue_pages(r1, get_outgoing_pages([st EXCEPT !.pages = r1], start_page), now)

\* The bulk update without the refresh of last_enqueued_at.
requeue_interrupted_no_refresh(rows, now) ==
    [p \in DOMAIN rows |->
        IF /\ rows[p].crawl_status = "in_progress"
           /\ rows[p].last_links_recorded_at = Null
        THEN [rows[p] EXCEPT !.crawl_status = "queued"]
        ELSE rows[p]]

requeue_interrupted_in_progress_pages(rows, now) ==
    [p \in DOMAIN rows |->
        IF /\ rows[p].crawl_status = "in_progress"
           /\ rows[p].last_links_recorded_at = Null
        THEN [rows[p] EXCEPT !.crawl_status = "queued", !.last_enqueued_at = now]
        ELSE rows[p]]

\* initialize_queue without the re-queue of interrupted pages.
initialize_queue_seed_only(st, start_page, now) ==
    [st EXCEPT !.pages = seed_from_start_page(st, start_page, now)]

initialize_queue(st, start_page, now) ==
    LET r1 == requeue_interrupted_in_progress_pages(st.pages, now)
    IN  [st EXCEPT !.pages = seed_from_start_page([st EXCEPT !.pages = r1], start_page, now)]

\* The cached branch of the cache check: enqueue the known neighbours, mark done.
\* expand_page_from_cached_links that marks the page done without
\* enqueueing its outgoing pages.
expand_page_from_cached_links_no_enqueue(st, page_id, now) ==
    [st EXCEPT !.pages[page_id] =
        Stored([@ EXCEPT !.crawl_status = "done",
                         !.last_finished_at = NotNull])]

expand_page_from_cached_links(st, page_id, now) ==
    LET r1 == enqueue_pages(st.pages, get_outgoing_pages(st, page_id), now)
    IN  [st EXCEPT !.pages =
            [r1 EXCEPT ![page_id] =
                Stored([@ EXCEPT !.crawl_status = "done",
                                 !.last_finished_at = NotNull])]]

\* persist_fetched_links that does not set the crawl-once marker.
persist_finish_no_marker(st, page_id) ==
    [st EXCEPT !.pages[page_id] =
        Stored([@ EXCEPT !.last_error = Null,
                         !.crawl_status = "done",
                         !.last_finished_at = NotNull])]

\* persist_fetched_links that leaves the error fields as they are.
persist_finish_keeps_error(st, page_id) ==
    [st EXCEPT !.pages[page_id] =
        Stored([@ EXCEPT !.last_links_recorded_at = NotNull,
                         !.crawl_status = "done",
                         !.last_finished_at = NotNull])]

\* The tail of persist_fetched_links, after record_links: the crawl-once
\* marker, the error fields, the status.
persist_finish(st, page_id) ==
    [st EXCEPT !.pages[page_id] =
        Stored([@ EXCEPT !.last_links_recorded_at = NotNull,
                         !.last_error = Null,
                         !.crawl_status = "done",
                         !.last_finished_at = NotNull])]

\* record_page_error that also resets the page for a later retry.
record_page_error_reset(st, page_id) ==
    IF page_id \notin DOMAIN st.pages THEN st
    ELSE [st EXCEPT !.pages[page_id] =
            Stored([@ EXCEPT !.crawl_status = "error",
                             !.last_links_recorded_at = Null,
                             !.last_error = NotNull,
                             !.last_finished_at = NotNull])]

\* record_page_error that writes the error columns but not the status.
record_page_error_keeps_status(st, page_id) ==
    IF page_id \notin DOMAIN st.pages THEN st
    ELSE [st EXCEPT !.pages[page_id] =
            Stored([@ EXCEPT !.last_error = NotNull,
                             !.last_finished_at = NotNull])]

\* record_page_error that puts the page back into the queue.
record_page_error_requeues(st, page_id) ==
    IF page_id \notin DOMAIN st.pages THEN st
    ELSE [st EXCEPT !.pages[page_id] =
            Stored([@ EXCEPT !.crawl_status = "queued",
                             !.last_error = NotNull,
                             !.last_finished_at = NotNull])]

\* record_page_error that writes the status only.
record_page_error_status_only(st, page_id) ==
    IF page_id \notin DOMAIN st.pages THEN st
    ELSE [st EXCEPT !.pages[page_id].crawl_status = "error"]

record_page_error(st, page_id) ==
    IF page_id \notin DOMAIN st.pages THEN st
    ELSE [st EXCEPT !.pages[page_id] =
            Stored([@ EXCEPT !.crawl_status = "error",
                             !.last_error = NotNull,
                             !.last_finished_at = NotNull])]

\* ---- history of the claims ----------------------------------------------

HasLinksRecorded(st) ==
    {p \in DOMAIN st.pages : st.pages[p].last_links_recorded_at # Null}

InStatus(st, status) ==
    {p \in DOMAIN st.pages : st.pages[p].crawl_status = status}

\* What a commit that replaces the store by newdb adds to the history:
\* last_claim went from another status to "queued" (only the bulk update of
\* requeue_interrupted_in_progress_pages takes a page out of in_progress,
\* only enqueue_page takes one out of error), pages got their links
\* recorded, and `marked` are the pages the commit marked as error.
Track(newdb, marked) ==
    /\ requeued' =
          IF /\ last_claim # Null
             /\ db.pages[last_claim].crawl_status # "queued"
             /\ newdb.pages[last_claim].crawl_status = "queued"
          THEN (IF db.pages[last_claim].crawl_status = "in_progress"
                THEN "requeue_interrupted" ELSE "enqueue")
          ELSE requeued
    /\ recorded' = recorded \cup HasLinksRecorded(newdb)
    /\ run_errors' =
          Rec("run_errors",
              (run_errors \cup marked) \cap InStatus(newdb, "error"),
              run_errors)
    /\ UNCHANGED last_claim

\* ---- walker.py, walk() ---------------------------------------------------

\* ---- record_links on the page_links table alone ---------------------------

\* The rows of page_links for the ordered pair (from, to).
LinkRows(rows, from, to) ==
    {l \in rows : l.from_page_id = from /\ l.to_page_id = to}

\* PageLink(from_page=..., to_page=..., last_seen_at=now) with the next
\* autoincrement id.
NewPageLinkRow(rows, from, to, now) ==
    [id |-> Cardinality(rows) + 1, from_page_id |-> from, to_page_id |-> to,
     last_seen_at |-> now]

\* The edge step that adds a row without the select before it.
upsert_page_link_always_add(rows, from, to, now) ==
    rows \cup {NewPageLinkRow(rows, from, to, now)}

\* The edge step of record_links: select the row of the pair, add it if
\* there is none, else set its last_seen_at.
upsert_page_link(rows, from, to, now) ==
    IF LinkRows(rows, from, to) = {}
    THEN rows \cup {NewPageLinkRow(rows, from, to, now)}
    ELSE {IF l \in LinkRows(rows, from, to)
          THEN [l EXCEPT !.last_seen_at = now] ELSE l : l \in rows}

\* Readings of the clock for the next upsert: never before a stored one.
upsert_now ==
    {t \in 1..MaxClock : \A l \in page_links : t >= l.last_seen_at}

UpsertLink(from, to, now) ==
    /\ upserts < MaxUpserts
    /\ page_links' = upsert_page_link(page_links, from, to, now)
    /\ upserts' = upserts + 1
    /\ last_upsert' = [from_page_id |-> from, to_page_id |-> to, now |-> now]
    /\ UNCHANGED <<db, sess, todo, fetch_links, enqueue_now, recording, pc,
                   cur, visited, max_pages, outcome, exc_at, hist, search,
                   workers, table, wiki>>

NextUpsert ==
    \E from \in Pages, to \in Pages, now \in upsert_now : UpsertLink(from, to, now)

\* ---- dijkstra.py ----------------------------------------------------------

Nodes == 1..NumNodes

\* sys.maxsize, above every distance.
maxsize == 2147483647

\* dict.get(key, default)
get(d, key, default) == IF key \in DOMAIN d THEN d[key] ELSE default

\* The neighbour query with the direction of the edges swapped.
iter_neighbors_incoming(edges, page_id) ==
    {l.from_page_id : l \in {k \in edges : k.to_page_id = page_id}}

\* _iter_neighbors: to_page_id of the edges with from_page_id = page_id.
iter_neighbors(edges, page_id) ==
    {l.to_page_id : l \in {k \in edges : k.from_page_id = page_id}}

\* heapq.heappop: the smallest (distance, node) tuple.
heappop(heap) ==
    CHOOSE e \in heap :
        \A o \in heap : e[1] < o[1] \/ (e[1] = o[1] /\ e[2] <= o[2])

\* The `while heap` loop (done is the set `visited`); yields dist and prev
\* as they are when it ends.
RECURSIVE dijkstra_loop(_, _, _, _, _, _)
dijkstra_loop(edges, goal_id, dist, prev, done, heap) ==
    IF heap = {} THEN [dist |-> dist, prev |-> prev]
    ELSE
      LET e == heappop(heap)
          rest == heap \ {e}
          current_dist == e[1]
          current == e[2]
          done2 == done \cup {current}
          alt == current_dist + 1
          better == {n \in iter_neighbors(edges, current) \ done2 :
                        alt < get(dist, n, maxsize)}
      IN  IF current \in done
          THEN dijkstra_loop(edges, goal_id, dist, prev, done, rest)
          ELSE IF current = goal_id
          THEN [dist |-> dist, prev |-> prev]
          ELSE IF current_dist # get(dist, current, current_dist)
          THEN dijkstra_loop(edges, goal_id, dist, prev, done2, rest)
          ELSE dijkstra_loop(
                 edges, goal_id,
                 [n \in DOMAIN dist \cup better |->
                     IF n \in better THEN alt ELSE dist[n]],
                 [n \in DOMAIN prev \cup better |->
                     IF n \in better THEN current ELSE prev[n]],
                 done2,
                 rest \cup {<<alt, n>> : n \in better})

\* The path reconstruction loop (node is `cur`); prev[cur] of a missing key
\* is a KeyError.
RECURSIVE reconstruct(_, _, _, _)
reconstruct(prev, start_id, node, path) ==
    IF node = start_id THEN [kind |-> "path", path |-> path]
    ELSE IF node \notin DOMAIN prev THEN [kind |-> "KeyError", path |-> <<>>]
    ELSE reconstruct(prev, start_id, prev[node], <<prev[node]>> \o path)

\* kind "path" is a returned list, kind "none" is the return value None.
dijkstra_shortest_path(edges, start_id, goal_id) ==
    IF start_id = goal_id THEN [kind |-> "path", path |-> <<start_id>>]
    ELSE LET r == dijkstra_loop(edges, goal_id, [n \in {start_id} |-> 0],
                                [n \in {} |-> 0], {}, {<<0, start_id>>})
         IN  IF goal_id \notin DOMAIN r.dist
             THEN [kind |-> "none", path |-> <<>>]
             ELSE reconstruct(r.prev, start_id, goal_id, <<goal_id>>)

\* main: the call with the two resolved page ids.
Search ==
    /\ search.result.kind = "pending"
    /\ search' = [search EXCEPT !.result =
                     dijkstra_shortest_path(search.edges, search.start_id,
                                            search.goal_id)]
    /\ UNCHANGED <<db, sess, todo, fetch_links, enqueue_now, recording, pc,
                   cur, visited, max_pages, outcome, exc_at, hist, upsert_vars,
                   workers, table, wiki>>

NoSearch == [edges |-> {}, start_id |-> Null, goal_id |-> Null,
             result |-> [kind |-> "none", path |-> <<>>]]

InitWalk(names) ==
    /\ recording = names
    /\ db = EmptyStore
    /\ sess = EmptyStore
    /\ todo = {}
    /\ fetch_links = {}
    /\ enqueue_now = Null
    /\ pc = "stopped"
    /\ cur = Null
    /\ visited = 0
    /\ max_pages = 0
    /\ outcome = "none"
    /\ exc_at = "none"
    /\ last_claim = Null
    /\ requeued = "no"
    /\ recorded = {}
    /\ run_errors = {}
    /\ seed_page = Null
    /\ page_links = {}
    /\ upserts = 0
    /\ last_upsert = Null

\* No wiki given.
NoWiki == [links |-> <<>>, start |-> Null, killed |-> FALSE]

\* No table with titles.
NoTable ==
    [pages |-> {}, links |-> {},
     ref |-> [page_id |-> Null, id |-> Null, title |-> "none", links |-> {},
              changed |-> FALSE]]

\* The two processes of SpecWorkers, not started.
Workers == {1, 2}

NoWorkers ==
    [w \in Workers |-> [pc |-> "stopped", page |-> Null, overwrote |-> "none",
                        last |-> "none"]]

InitStore(names) ==
    /\ InitWalk(names)
    /\ search = NoSearch
    /\ workers = NoWorkers
    /\ table = NoTable
    /\ wiki = NoWiki

\* Any pages table of the schema, rows fresh from get_or_create_page (queued,
\* last_enqueued_at NULL) included, with the process about to claim.
InitQueue ==
    /\ recording = {}
    /\ \E ids \in SUBSET Pages :
          \E rows \in [ids -> [crawl_status : PageCrawlStatus,
                               last_enqueued_at : 0..MaxClock,
                               last_links_recorded_at : {Null, NotNull},
                               last_error : {Null},
                               last_finished_at : {Null}]] :
             db = [pages |-> rows, links |-> {}]
    /\ sess = EmptyStore
    /\ todo = {}
    /\ fetch_links = {}
    /\ enqueue_now = Null
    /\ pc = "loop"
    /\ cur = Null
    /\ visited = 0
    /\ max_pages = 0
    /\ outcome = "running"
    /\ exc_at = "none"
    /\ last_claim = Null
    /\ requeued = "no"
    /\ recorded = HasLinksRecorded(db)
    /\ run_errors = {}
    /\ seed_page = Null
    /\ page_links = {}
    /\ upserts = 0
    /\ last_upsert = Null
    /\ search = NoSearch
    /\ workers = NoWorkers
    /\ table = NoTable
    /\ wiki = NoWiki

\* Any stored set of up to MaxEdges edges over the nodes, any start and goal.
InitDijkstra ==
    /\ InitWalk({})
    /\ workers = NoWorkers
    /\ table = NoTable
    /\ wiki = NoWiki
    /\ \E edges \in SUBSET {NewPageLink(f, t) : f \in Nodes, t \in Nodes},
          start_id \in Nodes, goal_id \in Nodes :
          /\ Cardinality(edges) <= MaxEdges
          /\ search = [edges |-> edges, start_id |-> start_id, goal_id |-> goal_id,
                       result |-> [kind |-> "pending", path |-> <<>>]]

Init == InitStore({})

InitClaims == InitStore({"last_claim"})

InitErrors == InitStore({"run_errors"})

InitEnqueue == InitStore({"enqueue_now"})

InitDiagnostics == InitStore({"diagnostics", "run_errors"})

InitSeed == InitStore({"seed_page"})

InitWorkers == InitStore({"diagnostics"})


\* A start that re-queues the interrupted pages before it resolves the title.
StartNotFound_after_requeue ==
    /\ pc = "stopped"
    /\ outcome' = "start_not_found"
    /\ \E now \in utc_now :
         db' = [db EXCEPT !.pages = requeue_interrupted_in_progress_pages(@, now)]
    /\ UNCHANGED <<sess, todo, fetch_links, enqueue_now, pc, cur, visited,
                   max_pages, exc_at, hist>>
    /\ UNCHANGED <<recording, upsert_vars, search, workers, table, wiki>>

\* Start title does not resolve: SystemExit before the store is touched.
StartNotFound ==
    /\ pc = "stopped"
    /\ outcome' = "start_not_found"
    /\ UNCHANGED <<db, sess, todo, fetch_links, enqueue_now, pc, cur, visited,
                   max_pages, exc_at, hist>>
    /\ UNCHANGED <<recording, upsert_vars, search, workers, table, wiki>>

\* Process start: requeue interrupted pages and seed, one transaction.
Startup(start_page, budget, now) ==
    /\ pc = "stopped"
    /\ db' = initialize_queue(db, start_page, now)
    /\ Track(db', {})
    /\ pc' = "loop"
    /\ visited' = 0
    /\ max_pages' = budget
    /\ outcome' = "running"
    /\ UNCHANGED <<sess, todo, fetch_links, enqueue_now, cur, exc_at>>
    /\ UNCHANGED <<recording, upsert_vars, search, workers, table, wiki>>
    /\ seed_page' = Rec("seed_page", start_page, Null)

BudgetReached == max_pages > 0 /\ visited >= max_pages

\* Top of the loop with the budget spent.
StopOnBudget ==
    /\ pc = "loop"
    /\ BudgetReached
    /\ pc' = "stopped"
    /\ outcome' = "budget"
    /\ visited' = 0
    /\ max_pages' = 0
    /\ run_errors' = {}
    /\ UNCHANGED <<db, sess, todo, fetch_links, enqueue_now, cur, exc_at,
                   last_claim, requeued, recorded>>
    /\ UNCHANGED <<recording, upsert_vars, search, workers, table, wiki>>
    /\ seed_page' = Null

\* Step 1, the claim transaction: queue empty ends the run, else the page
\* becomes in_progress.
claim_next_page_from_queue ==
    /\ pc = "loop"
    /\ ~BudgetReached
    /\ LET page == next_queued_page(db.pages)
       IN  IF page = Null
           THEN /\ pc' = "stopped"
                /\ outcome' = "empty"
                /\ visited' = 0
                /\ max_pages' = 0
                /\ run_errors' = {}
                /\ seed_page' = Null
                /\ UNCHANGED <<db, cur, last_claim, requeued>>
           ELSE /\ db' = [db EXCEPT !.pages[page].crawl_status = "in_progress"]
                /\ cur' = page
                /\ last_claim' = Rec("last_claim", page, last_claim)
                /\ requeued' = "no"
                /\ pc' = "claimed"
                /\ seed_page' = Null
                /\ UNCHANGED <<outcome, visited, max_pages, run_errors>>
    /\ UNCHANGED <<sess, todo, fetch_links, enqueue_now, exc_at, recorded>>
    /\ UNCHANGED <<recording, upsert_vars, search, workers, table, wiki>>

\* visited += 1.  The counter only feeds `max_pages > 0 and visited >=
\* max_pages`, so it saturates at max_pages.
Bump(n) == IF n < max_pages THEN n + 1 ELSE n

\* The cache check with the fetch issued inside its session: the session
\* that read the page is still open when the fetch starts.
CacheCheck_fetch_in_session ==
    /\ pc = "claimed"
    /\ db.pages[cur].last_links_recorded_at = Null
    /\ sess' = db
    /\ pc' = "fetch"
    /\ UNCHANGED <<db, todo, fetch_links, enqueue_now, cur, visited, max_pages,
                   outcome, exc_at, hist>>
    /\ UNCHANGED <<recording, upsert_vars, search, workers, table, wiki>>

\* Step 2, the cache-check transaction.
CacheCheck ==
    /\ pc = "claimed"
    /\ IF db.pages[cur].last_links_recorded_at # Null
       THEN /\ \E now \in utc_now :
                 db' = expand_page_from_cached_links(db, cur, now)
            /\ Track(db', {})
            /\ visited' = Bump(visited)
            /\ pc' = "print"
            /\ UNCHANGED seed_page
       ELSE /\ pc' = "fetch"
            /\ UNCHANGED <<db, visited, hist>>
    /\ UNCHANGED <<sess, todo, fetch_links, enqueue_now, cur, max_pages,
                   outcome, exc_at>>
    /\ UNCHANGED <<recording, upsert_vars, search, workers, table, wiki>>

\* Step 3: the fetch returns a link set and the persist session is opened
\* on the committed store.
FetchReturn(result) ==
    /\ pc = "fetch"
    /\ fetch_links' = result
    /\ todo' = result
    /\ sess' = db
    /\ pc' = "persist"
    /\ UNCHANGED <<db, enqueue_now, cur, visited, max_pages, outcome,
                   exc_at, hist>>
    /\ UNCHANGED <<recording, upsert_vars, search, workers, table, wiki>>

\* record_links committing after every link.
PersistLink_autocommit(to, now) ==
    /\ pc = "persist"
    /\ to \in todo
    /\ sess' = record_link(sess, cur, to, now)
    /\ enqueue_now' = Rec("enqueue_now", now, Null)
    /\ db' = sess'
    /\ Track(db', {})
    /\ todo' = todo \ {to}
    /\ UNCHANGED <<fetch_links, pc, cur, visited, max_pages,
                   outcome, exc_at>>
    /\ UNCHANGED <<recording, upsert_vars, search, workers, table, wiki>>
    /\ UNCHANGED seed_page

\* Step 4, inside the persist transaction: one link of record_links.
PersistLink(to, now) ==
    /\ pc = "persist"
    /\ to \in todo
    /\ sess' = record_link(sess, cur, to, now)
    /\ enqueue_now' = Rec("enqueue_now", now, Null)
    /\ todo' = todo \ {to}
    /\ UNCHANGED <<db, fetch_links, pc, cur, visited, max_pages,
                   outcome, exc_at, hist>>
    /\ UNCHANGED <<recording, upsert_vars, search, workers, table, wiki>>

\* Step 4, the end of the persist transaction: mark done and commit.
PersistCommit ==
    /\ pc = "persist"
    /\ todo = {}
    /\ db' = persist_finish(sess, cur)
    /\ Track(db', {})
    /\ sess' = EmptyStore
    /\ fetch_links' = {}
    /\ enqueue_now' = Null
    /\ visited' = Bump(visited)
    /\ pc' = "print"
    /\ UNCHANGED <<todo, cur, max_pages, outcome, exc_at>>
    /\ UNCHANGED <<recording, upsert_vars, search, workers, table, wiki>>
    /\ UNCHANGED seed_page

\* Step 5, the progress print.
ProgressPrint ==
    /\ pc = "print"
    /\ pc' = "loop"
    /\ cur' = Null
    /\ UNCHANGED <<db, sess, todo, fetch_links, enqueue_now, visited, max_pages,
                   outcome, exc_at, hist>>
    /\ UNCHANGED <<recording, upsert_vars, search, workers, table, wiki>>

\* Where the try block is when it raises; inside the persist transaction,
\* before or after record_links has handled a first link.
TryPosition ==
    IF pc = "persist"
    THEN (IF todo = fetch_links THEN "persist_begin" ELSE "persist_links")
    ELSE pc

\* Anything inside the try block raises: the open session is rolled back and
\* control goes to the except clause.
RaiseException ==
    /\ pc \in {"claimed", "fetch", "persist", "print"}
    /\ pc' = "failed"
    /\ exc_at' = TryPosition
    /\ sess' = EmptyStore
    /\ todo' = {}
    /\ fetch_links' = {}
    /\ enqueue_now' = Null
    /\ UNCHANGED <<db, cur, visited, max_pages, outcome, hist>>
    /\ UNCHANGED <<recording, upsert_vars, search, workers, table, wiki>>

\* The except clause: mark the claimed page as error, commit, next iteration.
RecordError ==
    /\ pc = "failed"
    /\ db' = record_page_error(db, cur)
    /\ Track(db', {cur})
    /\ pc' = "loop"
    /\ cur' = Null
    /\ exc_at' = "none"
    /\ UNCHANGED <<sess, todo, fetch_links, enqueue_now, visited, max_pages,
                   outcome>>
    /\ UNCHANGED <<recording, upsert_vars, search, workers, table, wiki>>
    /\ UNCHANGED seed_page

\* The process dies (signal, crash, an exception outside the try block):
\* only the committed store survives.
Killed ==
    /\ pc # "stopped"
    /\ pc' = "stopped"
    /\ outcome' = "crashed"
    /\ sess' = EmptyStore
    /\ todo' = {}
    /\ fetch_links' = {}
    /\ enqueue_now' = Null
    /\ cur' = Null
    /\ exc_at' = "none"
    /\ visited' = 0
    /\ max_pages' = 0
    /\ run_errors' = {}
    /\ UNCHANGED <<db, last_claim, requeued, recorded>>
    /\ UNCHANGED <<recording, upsert_vars, search, workers, table>>
    /\ seed_page' = Null

\* The kill in the specifications without a given wiki.
Crash == Killed /\ UNCHANGED wiki

\* ---- two processes on one store -------------------------------------------
\* Each process runs walk once.  The claim is split into its read
\* (next_queued_page) and its write (flush of crawl_status at the commit);
\* the other transactions are one step each, and the fetch and the persist
\* that follows it are one step.  The progress print is left out.

\* record_links: the loop over the fetched links.
RECURSIVE record_links(_, _, _, _)
record_links(st, from, to_pages, now) ==
    IF to_pages = {} THEN st
    ELSE LET to == CHOOSE x \in to_pages : TRUE
         IN  record_links(record_link(st, from, to, now), from,
                          to_pages \ {to}, now)

\* The persist transaction as a whole.
persist_fetched_links(st, page_id, links, now) ==
    persist_finish(record_links(st, page_id, links, now), page_id)

\* A claim whose UPDATE is conditioned on the row still being queued.
claim_write_if_queued(rows, page) ==
    IF rows[page].crawl_status = "queued"
    THEN [rows EXCEPT ![page].crawl_status = "in_progress"]
    ELSE rows

\* page.crawl_status = in_progress; commit: an UPDATE by primary key.
claim_write(rows, page) ==
    [rows EXCEPT ![page].crawl_status = "in_progress"]

\* Both processes are started with the same command line, on this page.
StartPage == 1

WorkerFrame ==
    UNCHANGED <<sess, todo, fetch_links, enqueue_now, recording, pc, cur,
                visited, max_pages, outcome, exc_at, hist, upsert_vars, search,
                table, wiki>>

WorkerStartup(w, start_page, now) ==
    /\ workers[w].pc = "stopped"
    /\ db' = initialize_queue(db, start_page, now)
    /\ workers' = [workers EXCEPT ![w].pc = "loop"]
    /\ WorkerFrame

\* The SELECT of the claim; an empty queue ends the process.
WorkerRead(w) ==
    /\ workers[w].pc = "loop"
    /\ LET page == next_queued_page(db.pages)
       IN  workers' = IF page = Null
                      THEN [workers EXCEPT ![w].pc = "ended", ![w].last = "none"]
                      ELSE [workers EXCEPT ![w].pc = "read", ![w].page = page,
                                           ![w].last = "none"]
    /\ UNCHANGED db
    /\ WorkerFrame

\* The UPDATE and commit of the claim.
WorkerWrite(w) ==
    /\ workers[w].pc = "read"
    /\ db' = [db EXCEPT !.pages = claim_write(db.pages, workers[w].page)]
    /\ workers' = [workers EXCEPT
                     ![w].pc = "claimed",
                     ![w].overwrote = db.pages[workers[w].page].crawl_status]
    /\ WorkerFrame

WorkerCacheCheck(w, now) ==
    /\ workers[w].pc = "claimed"
    /\ IF db.pages[workers[w].page].last_links_recorded_at # Null
       THEN /\ db' = expand_page_from_cached_links(db, workers[w].page, now)
            /\ workers' = [workers EXCEPT ![w].pc = "loop", ![w].page = Null,
                                          ![w].overwrote = "none",
                                          ![w].last = "cache"]
       ELSE /\ workers' = [workers EXCEPT ![w].pc = "fetch"]
            /\ UNCHANGED db
    /\ WorkerFrame

\* The fetch returns and the persist transaction commits; `last` tells a
\* persist of a page that carried an error (refetch) from any other.
WorkerPersist(w, links, now) ==
    /\ workers[w].pc = "fetch"
    /\ db' = persist_fetched_links(db, workers[w].page, links, now)
    /\ workers' = [workers EXCEPT ![w].pc = "loop", ![w].page = Null,
                                  ![w].overwrote = "none",
                                  ![w].last = IF db.pages[workers[w].page].last_error # Null
                                              THEN "refetch" ELSE "fetch"]
    /\ WorkerFrame

\* The try block raises and the except clause commits the error.
WorkerError(w) ==
    /\ workers[w].pc \in {"claimed", "fetch"}
    /\ db' = record_page_error(db, workers[w].page)
    /\ workers' = [workers EXCEPT ![w].pc = "loop", ![w].page = Null,
                                  ![w].overwrote = "none", ![w].last = "error"]
    /\ WorkerFrame

NextWorkers ==
    \E w \in Workers :
        \/ \E now \in utc_now : WorkerStartup(w, StartPage, now)
        \/ WorkerRead(w)
        \/ WorkerWrite(w)
        \/ \E now \in utc_now : WorkerCacheCheck(w, now)
        \/ \E links \in SUBSET Pages, now \in utc_now : WorkerPersist(w, links, now)
        \/ WorkerError(w)

\* ---- pages with titles ---------------------------------------------------
\* A pages table as a set of rows, each with its key, its title and the
\* columns crawl_status, last_links_recorded_at and last_error; the edges
\* refer to the keys.  `ref` holds the arguments of the latest call: the
\* page reference (id, title) and, for a persist, the claimed page_id.

Titles == {"a", "b"}

\* The column values a row of a running program holds together.
RowStates ==
    {[crawl_status |-> "queued", last_links_recorded_at |-> Null, last_error |-> Null],
     [crawl_status |-> "queued", last_links_recorded_at |-> Null, last_error |-> NotNull],
     [crawl_status |-> "in_progress", last_links_recorded_at |-> Null, last_error |-> Null],
     [crawl_status |-> "in_progress", last_links_recorded_at |-> Null, last_error |-> NotNull],
     [crawl_status |-> "done", last_links_recorded_at |-> NotNull, last_error |-> Null],
     [crawl_status |-> "error", last_links_recorded_at |-> Null, last_error |-> NotNull],
     [crawl_status |-> "error", last_links_recorded_at |-> NotNull, last_error |-> NotNull]}

\* Page(title=...) with the column defaults.
NewTitledPage(id, title) ==
    [id |-> id, title |-> title, crawl_status |-> "queued",
     last_links_recorded_at |-> Null, last_error |-> Null]

Ids(rows) == {r.id : r \in rows}

RowOf(rows, id) == CHOOSE r \in rows : r.id = id

SetRow(rows, new) == {IF r.id = new.id THEN new ELSE r : r \in rows}

\* The tables with one row per key in a set of keys.
TitledTables ==
    UNION {{{[id |-> i, title |-> f[i][1],
              crawl_status |-> f[i][2].crawl_status,
              last_links_recorded_at |-> f[i][2].last_links_recorded_at,
              last_error |-> f[i][2].last_error] : i \in S}
            : f \in [S -> Titles \X RowStates]}
           : S \in SUBSET Pages}

\* No edge or one edge between rows of the table.
TableLinks(rows) ==
    {{}} \cup {{NewPageLink(p, q)} : p \in Ids(rows), q \in Ids(rows)}

\* ---- crawl_db.py: pages keyed by mw_page_id -------------------------------

\* get_or_create_page that adds a row without looking for one.
get_or_create_page_ref_insert(rows, ref) ==
    rows \cup {NewTitledPage(ref.id, ref.title)}

\* get_or_create_page(session, ref), with the title.
get_or_create_page_ref(rows, ref) ==
    IF \E r \in rows : r.id = ref.id
    THEN LET page == RowOf(rows, ref.id)
         IN  IF page.title # ref.title
             THEN SetRow(rows, [page EXCEPT !.title = ref.title])
             ELSE rows
    ELSE rows \cup {NewTitledPage(ref.id, ref.title)}

TableFrame ==
    UNCHANGED <<db, sess, todo, fetch_links, enqueue_now, recording, pc, cur,
                visited, max_pages, outcome, exc_at, hist, upsert_vars, search,
                workers, wiki>>

\* A call of get_or_create_page and the commit of its session.
GetOrCreate(ref) ==
    /\ table' = [pages |-> get_or_create_page_ref(table.pages, ref),
                 links |-> table.links,
                 ref |-> [page_id |-> Null, id |-> ref.id, title |-> ref.title,
                          links |-> {},
                          changed |-> /\ ref.id \in Ids(table.pages)
                                      /\ RowOf(table.pages, ref.id).title # ref.title]]
    /\ TableFrame

NextRefs ==
    \E id \in Pages, title \in Titles : GetOrCreate([id |-> id, title |-> title])

\* Any table with one row per key, on an otherwise untouched state.
InitRefs ==
    /\ InitWalk({})
    /\ search = NoSearch
    /\ workers = NoWorkers
    /\ wiki = NoWiki
    /\ \E rows \in TitledTables :
         \E links \in TableLinks(rows) :
             table = [NoTable EXCEPT !.pages = rows, !.links = links]

SpecRefs == InitRefs /\ [][NextRefs]_vars

\* enqueue_page(session, ref), with the title.
enqueue_page_ref(rows, ref) ==
    LET r1 == get_or_create_page_ref(rows, ref)
        page == RowOf(r1, ref.id)
    IN  IF page.last_links_recorded_at # Null
        THEN SetRow(r1, [page EXCEPT !.crawl_status = "done"])
        ELSE IF page.crawl_status \notin {"done", "in_progress"}
             THEN SetRow(r1, [page EXCEPT !.crawl_status = "queued"])
             ELSE r1

\* record_links(session, from_page, to_pages, now), with the titles.
RECURSIVE record_links_ref(_, _, _)
record_links_ref(tb, from, to_pages) ==
    IF to_pages = {} THEN tb
    ELSE LET to_ref == CHOOSE r \in to_pages : TRUE
         IN  record_links_ref(
                 [tb EXCEPT !.pages = enqueue_page_ref(
                                          get_or_create_page_ref(@, to_ref), to_ref),
                            !.links = @ \cup {NewPageLink(from, to_ref.id)}],
                 from, to_pages \ {to_ref})

\* The tail of the persist on the table with titles.
persist_tail(tb, page_id, fetch_page, to_pages, changed) ==
    LET page == RowOf(tb.pages, page_id)
    IN  [pages |-> SetRow(tb.pages, [page EXCEPT !.last_links_recorded_at = NotNull,
                                                !.last_error = Null,
                                                !.crawl_status = "done"]),
         links |-> tb.links,
         ref |-> [page_id |-> page_id, id |-> fetch_page.id,
                  title |-> fetch_page.title, links |-> to_pages,
                  changed |-> changed]]

\* A persist that stores the result under the page id of the fetch result.
persist_fetched_links_by_fetch_id(tb, page_id, fetch_page, to_pages) ==
    LET r1 == get_or_create_page_ref(tb.pages, fetch_page)
        t2 == record_links_ref([tb EXCEPT !.pages = r1], fetch_page.id, to_pages)
        t3 == persist_tail(t2, fetch_page.id, fetch_page, to_pages, FALSE)
    IN  [t3 EXCEPT !.ref.page_id = page_id]

\* persist_fetched_links(engine, page_id=..., fetch=..., now=...), with the
\* title: fetch.page is read for its title only.
persist_fetched_links_ref(tb, page_id, fetch_page, to_pages) ==
    LET db_page == RowOf(tb.pages, page_id)
        r1 == IF fetch_page.title # db_page.title
              THEN SetRow(tb.pages, [db_page EXCEPT !.title = fetch_page.title])
              ELSE tb.pages
        t2 == record_links_ref([tb EXCEPT !.pages = r1], page_id, to_pages)
    IN  persist_tail(t2, page_id, fetch_page, to_pages,
                     fetch_page.title # db_page.title)

\* The page references a fetch can return.
Refs == [id : Pages, title : Titles]

\* fetch.links: at most one reference per page id.
LinkSets == {S \in SUBSET Refs : \A r, r2 \in S : r.id = r2.id => r = r2}

\* The fetch of a claimed page returns and its persist commits; one persist
\* is applied to each table.
PersistFetched(page_id, fetch_page, to_pages) ==
    /\ table.ref.page_id = Null
    /\ page_id \in Ids(table.pages)
    /\ RowOf(table.pages, page_id).crawl_status = "in_progress"
    /\ table' = persist_fetched_links_ref(table, page_id, fetch_page, to_pages)
    /\ TableFrame

NextPersist ==
    \E page_id \in Pages, fetch_page \in Refs, to_pages \in LinkSets :
        PersistFetched(page_id, fetch_page, to_pages)

SpecPersist == InitRefs /\ [][NextPersist]_vars

\* ---- main.py: pages keyed by title ----------------------------------------

\* Page.title is unique.
UniqueTitles(rows) == \A r, r2 \in rows : r.title = r2.title => r = r2

\* Page.id is AUTOINCREMENT.
next_id(rows) ==
    IF rows = {} THEN 1
    ELSE 1 + CHOOSE i \in Ids(rows) : \A j \in Ids(rows) : j <= i

\* main.py get_or_create_page(session, title)
get_or_create_page_by_title(rows, title) ==
    IF \E r \in rows : r.title = title THEN rows
    ELSE rows \cup {NewTitledPage(next_id(rows), title)}

\* main.py enqueue_page(session, title=...)
enqueue_page_by_title(rows, title) ==
    LET r1 == get_or_create_page_by_title(rows, title)
        page == CHOOSE r \in r1 : r.title = title
    IN  IF page.last_links_recorded_at # Null
        THEN SetRow(r1, [page EXCEPT !.crawl_status = "done"])
        ELSE IF page.crawl_status \notin {"done", "in_progress"}
             THEN SetRow(r1, [page EXCEPT !.crawl_status = "queued"])
             ELSE r1

\* main.py record_links(session, from_page, to_titles, now)
RECURSIVE record_links_by_title(_, _, _)
record_links_by_title(tb, from, to_titles) ==
    IF to_titles = {} THEN tb
    ELSE LET to_title == CHOOSE t \in to_titles : TRUE
             r1 == enqueue_page_by_title(
                       get_or_create_page_by_title(tb.pages, to_title), to_title)
             to_page == CHOOSE r \in r1 : r.title = to_title
         IN  record_links_by_title(
                 [tb EXCEPT !.pages = r1,
                            !.links = @ \cup {NewPageLink(from, to_page.id)}],
                 from, to_titles \ {to_title})

\* The second session of the fetch branch of walk: the canonical title, the
\* links, the crawl-once marker, the error fields, the status, one commit.
persist_canonical(tb, page_id, fetch_title, to_titles) ==
    LET db_page2 == RowOf(tb.pages, page_id)
        existing == {r \in tb.pages : r.title = fetch_title}
        r1 == IF fetch_title # db_page2.title
              THEN IF existing = {}
                   THEN SetRow(tb.pages, [db_page2 EXCEPT !.title = fetch_title])
                   ELSE SetRow(tb.pages, [db_page2 EXCEPT !.last_error = NotNull])
              ELSE tb.pages
        t2 == record_links_by_title([tb EXCEPT !.pages = r1], page_id, to_titles)
        page == RowOf(t2.pages, page_id)
    IN  [pages |-> SetRow(t2.pages, [page EXCEPT !.last_links_recorded_at = NotNull,
                                                !.last_error = Null,
                                                !.crawl_status = "done"]),
         links |-> t2.links,
         ref |-> [page_id |-> page_id, id |-> page_id, title |-> fetch_title,
                  links |-> {},
                  changed |-> RowOf(r1, page_id).title # db_page2.title]]

\* The fetch of a claimed page returns and its persist commits.
PersistCanonical(page_id, fetch_title, to_titles) ==
    /\ page_id \in Ids(table.pages)
    /\ RowOf(table.pages, page_id).crawl_status = "in_progress"
    /\ table' = persist_canonical(table, page_id, fetch_title, to_titles)
    /\ TableFrame

NextCanonical ==
    \E page_id \in Pages, fetch_title \in Titles, to_titles \in SUBSET Titles :
        PersistCanonical(page_id, fetch_title, to_titles)

\* Any table with unique titles and keys 1..n, on an otherwise untouched
\* state.
InitCanonical ==
    /\ InitWalk({})
    /\ search = NoSearch
    /\ workers = NoWorkers
    /\ wiki = NoWiki
    /\ \E rows \in TitledTables :
         /\ UniqueTitles(rows)
         /\ Ids(rows) = 1..Cardinality(rows)
         /\ \E links \in TableLinks(rows) :
              table = [NoTable EXCEPT !.pages = rows, !.links = links]

SpecCanonical == InitCanonical /\ [][NextCanonical]_vars

\* ---- the walk on a given wiki ---------------------------------------------
\* The links of every page are fixed by the initial state and every fetch
\* returns the links of the fetched page; no fetch and no store operation
\* fails.  SpecCrawl is one run on an empty store with no page budget,
\* SpecRestarts the same with the process killed at any point and started
\* again on the same start page.

InitCrawl ==
    /\ InitWalk({})
    /\ search = NoSearch
    /\ workers = NoWorkers
    /\ table = NoTable
    /\ \E links \in [Pages -> SUBSET Pages], start \in Pages :
         wiki = [links |-> links, start |-> start, killed |-> FALSE]

\* walk(engine, start_title=..., max_pages=0, ...), first start.
StartCrawl(now) ==
    /\ outcome = "none"
    /\ Startup(wiki.start, 0, now)

\* walk started again after the process was killed.
Restart(now) ==
    /\ outcome = "crashed"
    /\ Startup(wiki.start, 0, now)

\* mediawiki_fetch_links returns the links of the page.
FetchWiki == FetchReturn(wiki.links[cur])

\* The process is killed.
Kill ==
    /\ Killed
    /\ wiki' = [wiki EXCEPT !.killed = TRUE]

NextCrawl ==
    \/ \E now \in utc_now : StartCrawl(now)
    \/ claim_next_page_from_queue
    \/ CacheCheck
    \/ FetchWiki
    \/ \E to \in Pages, now \in utc_now : PersistLink(to, now)
    \/ PersistCommit
    \/ ProgressPrint

NextRestarts ==
    \/ NextCrawl
    \/ \E now \in utc_now : Restart(now)
    \/ Kill

SpecCrawl == InitCrawl /\ [][NextCrawl]_vars

SpecRestarts == InitCrawl /\ [][NextRestarts]_vars

\* The pages reached from a set of pages over the links of the wiki.
RECURSIVE ReachableFrom(_)
ReachableFrom(S) ==
    LET T == S \cup UNION {wiki.links[p] : p \in S}
    IN  IF T = S THEN S ELSE ReachableFrom(T)

Next ==
    \/ StartNotFound
    \/ \E s \in Pages, b \in 0..MaxBudget, now \in utc_now : Startup(s, b, now)
    \/ StopOnBudget
    \/ claim_next_page_from_queue
    \/ CacheCheck
    \/ \E result \in SUBSET Pages : FetchReturn(result)
    \/ \E to \in Pages, now \in utc_now : PersistLink(to, now)
    \/ PersistCommit
    \/ ProgressPrint
    \/ RaiseException
    \/ RecordError
    \/ Crash

Spec == Init /\ [][Next]_vars

\* The steps of a running process.  walk is one sequential loop, so a
\* process that is not killed takes its next step; the fetch returns or
\* raises.
RunStep ==
    \/ StopOnBudget
    \/ claim_next_page_from_queue
    \/ CacheCheck
    \/ \E result \in SUBSET Pages : FetchReturn(result)
    \/ \E to \in Pages, now \in utc_now : PersistLink(to, now)
    \/ PersistCommit
    \/ ProgressPrint
    \/ RaiseException
    \/ RecordError

\* Runs that are never killed.
NextLive ==
    \/ StartNotFound
    \/ \E s \in Pages, b \in 0..MaxBudget, now \in utc_now : Startup(s, b, now)
    \/ RunStep

SpecLive == Init /\ [][NextLive]_vars /\ WF_vars(RunStep)

SpecClaims == InitClaims /\ [][Next]_vars

SpecErrors == InitErrors /\ [][Next]_vars

SpecEnqueue == InitEnqueue /\ [][Next]_vars

SpecDiagnostics == InitDiagnostics /\ [][Next]_vars

SpecSeed == InitSeed /\ [][Next]_vars

SpecUpsert == Init /\ [][NextUpsert]_vars

SpecWorkers == InitWorkers /\ [][NextWorkers]_vars

SpecQueue == InitQueue /\ [][claim_next_page_from_queue]_vars

SpecDijkstra == InitDijkstra /\ [][Search]_vars

TypeOK ==
    /\ DOMAIN db.pages \subseteq Pages
    /\ \A p \in DOMAIN db.pages :
          /\ db.pages[p].crawl_status \in PageCrawlStatus
          /\ db.pages[p].last_enqueued_at \in 0..MaxClock
          /\ db.pages[p].last_links_recorded_at \in {Null, NotNull}
          /\ db.pages[p].last_error \in {Null, NotNull}
          /\ db.pages[p].last_finished_at \in {Null, NotNull}
    /\ pc \in {"stopped", "loop", "claimed", "fetch", "persist", "print", "failed"}
    /\ cur \in Pages \cup {Null}
    /\ enqueue_now \in 0..MaxClock
    /\ upserts \in 0..MaxUpserts
    /\ \A r \in table.pages :
          /\ r.title \in Titles
          /\ r.crawl_status \in PageCrawlStatus
          /\ r.last_links_recorded_at \in {Null, NotNull}
          /\ r.last_error \in {Null, NotNull}
    /\ \A l \in table.links : {l.from_page_id, l.to_page_id} \subseteq Ids(table.pages)
    /\ table.ref.page_id \in Pages \cup {Null}
    /\ table.ref.links \in LinkSets
    /\ wiki.start \in Pages \cup {Null}
    /\ wiki.killed \in BOOLEAN
    /\ \A p \in DOMAIN wiki.links : wiki.links[p] \subseteq Pages
    /\ \A w \in Workers :
          /\ workers[w].pc \in {"stopped", "loop", "read", "claimed", "fetch", "ended"}
          /\ workers[w].page \in Pages \cup {Null}
          /\ workers[w].overwrote \in PageCrawlStatus \cup {"none"}
          /\ workers[w].last \in {"none", "cache", "fetch", "refetch", "error"}
    /\ search.result.kind \in {"pending", "path", "none", "KeyError"}
    /\ \A l \in page_links :
          /\ l.id \in 1..MaxUpserts
          /\ l.from_page_id \in Pages
          /\ l.to_page_id \in Pages
          /\ l.last_seen_at \in 1..MaxClock
    /\ recording \subseteq {"diagnostics", "last_claim", "run_errors",
                           "enqueue_now", "seed_page"}

\* ---- properties -----------------------------------------------------------

\* The links of the fetch result that record_links has handled so far.
Handled == fetch_links \ todo

\* C1: crawl-once (fetch).  Once the links of a page were committed, no
\* fetch is issued for it again, in this run or in any later one.
C1_CrawlOnceFetch ==
    pc = "fetch" => cur \notin recorded

\* A fetch is in flight while another page already has its links recorded.
C1_Witness ==
    /\ pc = "fetch"
    /\ recorded # {}
    /\ outcome = "running"

\* C2: crawl-once (enqueue).  enqueue_page on a page whose links are
\* recorded leaves it done and does not touch last_enqueued_at: in the loop of
\* record_links (row before the call: sess, after: sess'), and in the startup
\* transaction no page with recorded links becomes queued or gets a new
\* last_enqueued_at.
C2_CrawlOnceEnqueue ==
    [][/\ \A q \in Pages :
            (/\ pc = "persist" /\ pc' = "persist" /\ q \in todo /\ q \notin todo'
             /\ q \in DOMAIN sess.pages
             /\ sess.pages[q].last_links_recorded_at # Null)
            => /\ sess'.pages[q].crawl_status = "done"
               /\ sess'.pages[q].last_enqueued_at = sess.pages[q].last_enqueued_at
       /\ \A q \in HasLinksRecorded(db) :
            (pc = "stopped" /\ pc' = "loop")
            => /\ db'.pages[q].crawl_status \in {"done", db.pages[q].crawl_status}
               /\ db'.pages[q].last_enqueued_at = db.pages[q].last_enqueued_at]_vars

\* record_links has enqueued a page that has its links recorded and was
\* committed with status error.
C2_Witness ==
    /\ pc = "persist"
    /\ \E q \in Handled :
          /\ q \in HasLinksRecorded(db)
          /\ db.pages[q].crawl_status = "error"
          /\ sess.pages[q].crawl_status = "done"

\* C3: in every committed state a page with recorded links is done.
C3_RecordedImpliesDone ==
    \A p \in HasLinksRecorded(db) : db.pages[p].crawl_status = "done"

\* C4: persist is all-or-nothing.  The committed store holds an edge from a
\* page only if the links of that page are recorded, and while the persist
\* transaction is open or after it was rolled back the claimed page is as the
\* claim left it.
C4_PersistAllOrNothing ==
    /\ \A l \in db.links : l.from_page_id \in HasLinksRecorded(db)
    /\ (pc = "persist" \/ (pc = "failed" /\ exc_at # "print"))
        => /\ db.pages[cur].crawl_status = "in_progress"
           /\ db.pages[cur].last_links_recorded_at = Null

\* The persist raised after record_links had created a row and an edge in
\* the session; neither is in the committed store.
C4_Witness ==
    /\ pc = "failed"
    /\ exc_at = "persist_links"
    /\ \A l \in db.links : l.from_page_id # cur
    /\ DOMAIN db.pages = {cur}

\* C5: restart safety.  The startup transaction turns every page that is
\* in_progress without recorded links into a queued page whose
\* last_enqueued_at is refreshed (not before any timestamp of the store the
\* crash left), which the queue filter selects, and leaves no page
\* in_progress for the first claim of the run.
C5_RestartSafety ==
    [][(pc = "stopped" /\ pc' = "loop")
        => /\ \A p \in InStatus(db, "in_progress") :
                 db.pages[p].last_links_recorded_at = Null
                 => /\ db'.pages[p].crawl_status = "queued"
                    /\ db'.pages[p].last_enqueued_at >= Latest(db.pages)
                    /\ p \in Claimable(db'.pages)
           /\ InStatus(db', "in_progress") = {}]_vars

\* A run has started after a crash that left the claimed page in_progress,
\* and the startup has put that page back into the queue.
C5_Witness ==
    /\ pc = "loop"
    /\ requeued = "requeue_interrupted"
    /\ last_claim \in Claimable(db.pages)
    /\ db.pages[last_claim].last_enqueued_at = Latest(db.pages)

\* C6: exclusive claim.  A claim returns the page the previous claim
\* returned only if that page went back to queued in between.
C6_ExclusiveClaim ==
    [][(pc = "loop" /\ pc' = "claimed" /\ cur' = last_claim)
        => requeued # "no"]_vars

\* The page of the previous claim was marked error, re-queued by
\* enqueue_page, and is the one the next claim returns.
C6_Witness ==
    /\ pc = "loop"
    /\ ~BudgetReached
    /\ requeued = "enqueue"
    /\ next_queued_page(db.pages) = last_claim

\* C7: progress is never lost.  No step removes a page row, an edge row or
\* a links-recorded marker from the committed store.
C7_ProgressNeverLost ==
    [][/\ DOMAIN db.pages \subseteq DOMAIN db'.pages
       /\ db.links \subseteq db'.links
       /\ HasLinksRecorded(db) \subseteq HasLinksRecorded(db')]_vars

\* After iterations that recorded links and an error, the process crashed;
\* pages, edges and markers are in the store the next run starts from.
C7_Witness ==
    /\ pc = "stopped"
    /\ outcome = "crashed"
    /\ db.links # {}
    /\ HasLinksRecorded(db) # {}
    /\ InStatus(db, "error") # {}

\* C8: idempotent enqueue (status).  enqueue_page on a page that is queued
\* or in_progress and has no recorded links leaves crawl_status as it was:
\* in the loop of record_links, and for every queued page in the startup
\* transaction.
C8_EnqueueKeepsStatus ==
    [][/\ \A q \in Pages :
            (/\ pc = "persist" /\ pc' = "persist" /\ q \in todo /\ q \notin todo'
             /\ q \in DOMAIN sess.pages
             /\ sess.pages[q].last_links_recorded_at = Null
             /\ sess.pages[q].crawl_status \in {"queued", "in_progress"})
            => sess'.pages[q].crawl_status = sess.pages[q].crawl_status
       /\ \A q \in Claimable(db.pages) :
            (pc = "stopped" /\ pc' = "loop")
            => db'.pages[q].crawl_status = "queued"]_vars

\* record_links has enqueued the claimed page itself (in_progress, a
\* self-link) and a page that was already queued.
C8_Witness ==
    /\ pc = "persist"
    /\ cur \in Handled
    /\ sess.pages[cur].crawl_status = "in_progress"
    /\ \E q \in Handled :
          /\ q \in Claimable(db.pages)
          /\ sess.pages[q].crawl_status = "queued"

\* C9 as stated: enqueue_page on an already-queued page changes nothing,
\* last_enqueued_at included.
C9_EnqueueQueuedNoop ==
    [][\A q \in Pages :
          (/\ pc = "persist" /\ pc' = "persist" /\ q \in todo /\ q \notin todo'
           /\ q \in Claimable(sess.pages))
          => sess'.pages[q] = sess.pages[q]]_vars

\* C9: enqueue_page on an already-queued page without recorded links keeps
\* crawl_status = queued and sets last_enqueued_at to the time of the
\* call; on an in_progress page it changes nothing.
C9_EnqueueQueuedRefreshes ==
    [][\A q \in Pages :
          (/\ pc = "persist" /\ pc' = "persist" /\ q \in todo /\ q \notin todo'
           /\ q \in DOMAIN sess.pages
           /\ sess.pages[q].last_links_recorded_at = Null)
          => /\ sess.pages[q].crawl_status = "queued"
                => /\ sess'.pages[q].crawl_status = "queued"
                   /\ sess'.pages[q].last_enqueued_at = enqueue_now'
             /\ sess.pages[q].crawl_status = "in_progress"
                => sess'.pages[q] = sess.pages[q]]_vars

\* record_links has enqueued a page that was committed as queued, and its
\* last_enqueued_at in the session is later than the committed one.
C9_Witness ==
    /\ pc = "persist"
    /\ \E q \in Handled :
          /\ q \in Claimable(db.pages)
          /\ db.pages[q].last_enqueued_at # Null
          /\ db.pages[q].last_enqueued_at < sess.pages[q].last_enqueued_at

\* C10 as stated: a page the run has marked error is not made queued and
\* not claimed again by any later step of that run.
C10_ErrorNotRetried ==
    [][\A p \in run_errors :
          db'.pages[p].crawl_status \notin {"queued", "in_progress"}]_vars

\* C10: a page the run has marked error is not claimed while it is in
\* status error, and it leaves that status within the run exactly when the
\* run commits the persist of a page whose fetched links contain it:
\* enqueue_page then makes it queued and claimable again (done if its links
\* are recorded).
C10_ErrorRetriedOnRediscovery ==
    [][\A p \in run_errors \cap InStatus(db, "error") :
          /\ (pc = "loop" /\ pc' = "claimed") => cur' # p
          /\ (pc = "persist" /\ pc' = "print" /\ p \in fetch_links)
             <=> db'.pages[p].crawl_status # "error"
          /\ db'.pages[p].crawl_status # "error"
             => IF db.pages[p].last_links_recorded_at = Null
                THEN p \in Claimable(db'.pages)
                ELSE db'.pages[p].crawl_status = "done"]_vars

\* The persist of a page whose fetched links contain a page this run has
\* marked error is ready to commit, with that page queued in the session.
C10_Witness ==
    /\ pc = "persist"
    /\ todo = {}
    /\ \E p \in run_errors \cap fetch_links :
          sess.pages[p].crawl_status = "queued"

\* The pages the current run has claimed and left in status error without
\* committing their links (the ones visited does not count).
ErroredUncounted ==
    {p \in run_errors : db.pages[p].last_links_recorded_at = Null}

\* C11: page budget.  In a run with budget N > 0 a page that ended done or
\* in error counts toward the budget: a further page is claimed only while
\* fewer than N pages of the run have ended, the budget stop comes when
\* exactly N have, and pages that were queued and not claimed stay queued;
\* a run with budget 0 never stops on the budget.
C11_PageBudget ==
    [][/\ (pc = "loop" /\ pc' = "claimed" /\ max_pages > 0)
          => visited + Cardinality(ErroredUncounted) < max_pages
       /\ (pc = "loop" /\ pc' = "stopped" /\ outcome' = "budget")
          => /\ max_pages > 0
             /\ visited + Cardinality(ErroredUncounted) = max_pages
       /\ (pc # "stopped" /\ pc' # "stopped")
          => \A q \in Claimable(db.pages) :
                q \in Claimable(db'.pages) \/ q = cur']_vars

\* C12: per-page error containment.  When the fetch or the persist of the
\* claimed page has raised, the except clause commits that page with
\* crawl_status = error and last_error / last_finished_at set, changes no
\* other row and no edge, and control is back at the top of the loop with
\* the run still running and the budget not reached, so the next step of
\* the run is a claim.
C12_ErrorContainment ==
    [][(pc = "failed" /\ exc_at \in {"fetch", "persist_begin", "persist_links"}
        /\ pc' # "stopped")
        => /\ db'.pages[cur].crawl_status = "error"
           /\ db'.pages[cur].last_error # Null
           /\ db'.pages[cur].last_finished_at # Null
           /\ DOMAIN db'.pages = DOMAIN db.pages
           /\ \A p \in DOMAIN db.pages \ {cur} : db'.pages[p] = db.pages[p]
           /\ db'.links = db.links
           /\ pc' = "loop"
           /\ outcome' = "running"
           /\ ~BudgetReached']_vars

\* The run has recorded an error for a page whose persist never committed,
\* and is at the top of the loop with another page waiting in the queue.
C12_Witness ==
    /\ pc = "loop"
    /\ "diagnostics" \in recording
    /\ \E p \in ErroredUncounted :
          /\ db.pages[p].last_error # Null
          /\ db.pages[p].last_finished_at # Null
    /\ next_queued_page(db.pages) # Null


\* C13: start-page re-seed.  On the startup step, a start page whose links
\* are recorded does not become claimable and keeps its last_enqueued_at,
\* while every page one stored edge away from it that has no links recorded
\* (and is not done) is queued with a timestamp no older than any stored
\* one; a start page without recorded links is queued itself.  The start
\* page of a re-seed is never fetched afterwards: a page goes to the fetch
\* only with no links recorded, and recorded links are never cleared.
C13_StartPageReseed ==
    [][/\ (pc = "stopped" /\ pc' = "loop")
          => LET s == seed_page'
             IN  IF s \in HasLinksRecorded(db)
                 THEN /\ s \notin Claimable(db'.pages)
                      /\ db'.pages[s].last_enqueued_at = db.pages[s].last_enqueued_at
                      /\ db'.pages[s].last_links_recorded_at # Null
                      /\ \A q \in get_outgoing_pages(db, s) :
                            (/\ db.pages[q].last_links_recorded_at = Null
                             /\ db.pages[q].crawl_status # "done")
                            => /\ q \in Claimable(db'.pages)
                               /\ db'.pages[q].last_enqueued_at >= Latest(db.pages)
                 ELSE s \in Claimable(db'.pages)
       /\ pc' = "fetch" => cur' \notin HasLinksRecorded(db')
       /\ HasLinksRecorded(db) \subseteq HasLinksRecorded(db')]_vars

\* A run has just started from a page whose links are recorded, and a page
\* it links to is waiting in the queue while the start page is not.
C13_Witness ==
    /\ pc = "loop"
    /\ seed_page \in HasLinksRecorded(db)
    /\ seed_page \notin Claimable(db.pages)
    /\ \E q \in get_outgoing_pages(db, seed_page) \ {seed_page} :
          q \in Claimable(db.pages)


\* C14: successful iteration post-state.  When the persist transaction of
\* the claimed page commits, the page is done with its links recorded, every
\* fetched link has a page row and an edge from the claimed page, and every
\* linked page that had no links recorded and was not in_progress before the
\* persist is queued.
C14_IterationPostState ==
    [][(pc = "persist" /\ pc' = "print")
        => /\ db'.pages[cur].crawl_status = "done"
           /\ db'.pages[cur].last_links_recorded_at # Null
           /\ \A q \in fetch_links :
                 /\ q \in DOMAIN db'.pages
                 /\ NewPageLink(cur, q) \in db'.links
                 /\ (q \in DOMAIN db.pages =>
                        /\ db.pages[q].last_links_recorded_at = Null
                        /\ db.pages[q].crawl_status # "in_progress")
                    => db'.pages[q].crawl_status = "queued"]_vars

\* A persist has just committed at least two links of the claimed page, and
\* another page it links to is waiting in the queue.
C14_Witness ==
    /\ pc = "print"
    /\ db.pages[cur].last_links_recorded_at # Null
    /\ Cardinality({l \in db.links : l.from_page_id = cur}) >= 2
    /\ \E q \in get_outgoing_pages(db, cur) \ {cur} : q \in Claimable(db.pages)


\* C15: edge dedup.  After every edge upsert the table holds at most one row
\* per ordered (from, to) pair; an upsert of a pair that is stored adds no
\* row, keeps the row's id and sets its last_seen_at to the time of this
\* call, and an upsert of a new pair adds exactly one row with that time.
C15_EdgeDedup ==
    [][upserts' # upserts
        => LET c == last_upsert'
               before == LinkRows(page_links, c.from_page_id, c.to_page_id)
               after == LinkRows(page_links', c.from_page_id, c.to_page_id)
           IN  /\ \A f \in Pages, t \in Pages :
                     Cardinality(LinkRows(page_links', f, t)) <= 1
               /\ \A l \in after : l.last_seen_at = c.now
               /\ after # {}
               /\ before # {}
                  => /\ Cardinality(page_links') = Cardinality(page_links)
                     /\ {l.id : l \in after} = {l.id : l \in before}
               /\ before = {}
                  => Cardinality(page_links') = Cardinality(page_links) + 1
               /\ page_links' \ after = page_links \ before]_vars

\* The second upsert was for the pair stored by the first: one row, with
\* the first id, carrying the time of the second call.
C15_Witness ==
    /\ upserts = 2
    /\ Cardinality(page_links) = 1
    /\ \E l \in page_links :
          /\ l.id = 1
          /\ l.last_seen_at = last_upsert.now
          /\ l.last_seen_at > 1


\* C16: done is terminal.  No step changes the committed crawl_status of a
\* page that is done.
C16_DoneIsTerminal ==
    [][\A p \in DOMAIN db.pages :
          db.pages[p].crawl_status = "done" => db'.pages[p].crawl_status = "done"]_vars


\* C17: shortest path.  A finished search returns None exactly when the goal
\* cannot be reached from the start over the stored edges and never fails;
\* it returns [start] when start = goal; any other returned list begins with
\* the start, ends with the goal, follows a stored edge at every step and
\* has as few edges as any walk from the start to the goal.
C17_ShortestPath ==
    LET edges == search.edges
        start == search.start_id
        goal == search.goal_id
        res == search.result
        path == res.path
        \* nodes that can be reached from the start by a walk of k edges
        Within[k \in 0..NumNodes] ==
            IF k = 0 THEN {start}
            ELSE {l.to_page_id : l \in {e \in edges : e.from_page_id \in Within[k - 1]}}
        Lengths == {k \in 0..NumNodes : goal \in Within[k]}
    IN  res.kind # "pending"
        => /\ res.kind \in {"path", "none"}
           /\ res.kind = "none" <=> Lengths = {}
           /\ start = goal => res = [kind |-> "path", path |-> <<start>>]
           /\ res.kind = "path"
              => /\ path[1] = start
                 /\ path[Len(path)] = goal
                 /\ \A i \in 1..(Len(path) - 1) :
                       NewPageLink(path[i], path[i + 1]) \in edges
                 /\ \A k \in Lengths : Len(path) - 1 <= k

\* A search over a graph of at least four edges returned a path of two
\* edges, so the goal is not a neighbour of the start.
C17_Witness ==
    /\ search.result.kind = "path"
    /\ Len(search.result.path) = 3
    /\ Cardinality(search.edges) >= 4


\* C18: strictly sequential processing.  While a run is going the only page
\* that can be in_progress in the committed store is the claimed one, and it
\* is from its claim until its persist commits; at the top of the loop, where the
\* next claim or the normal end of the run happens, no page is in_progress;
\* the step that takes the run back to the top of the loop leaves the page
\* of the iteration done or error; a run that has ended on the budget or on
\* an empty queue leaves no page in_progress.
C18_StrictlySequential ==
    [][/\ pc' \in {"claimed", "fetch", "persist"}
          => InStatus(db', "in_progress") = {cur'}
       /\ pc' = "failed"
          => InStatus(db', "in_progress") \subseteq {cur'}
       /\ pc' \in {"loop", "print"}
          => InStatus(db', "in_progress") = {}
       /\ (pc' = "stopped" /\ outcome' \in {"budget", "empty"})
          => InStatus(db', "in_progress") = {}
       /\ (pc \in {"print", "failed"} /\ pc' = "loop")
          => db'.pages[cur].crawl_status \in {"done", "error"}
       /\ (pc = "loop" /\ pc' = "claimed")
          => InStatus(db, "in_progress") = {}]_vars

\* The run has marked a page as error and has claimed the next page, which
\* is the only one in_progress.
C18_Witness ==
    /\ pc = "claimed"
    /\ run_errors # {}
    /\ cur \notin run_errors
    /\ InStatus(db, "in_progress") = {cur}


\* C19: queue order.  The page a claim returns is queued with no links
\* recorded, and every other such page has a later last_enqueued_at (NULL
\* counting as later than every time) or the same one and a larger page id;
\* the claim finds the queue empty only when there is no such page.
C19_QueueOrder ==
    [][LET Key(p) == IF db.pages[p].last_enqueued_at = Null THEN MaxClock + 1
                     ELSE db.pages[p].last_enqueued_at
           Waiting == {p \in DOMAIN db.pages :
                          /\ db.pages[p].crawl_status = "queued"
                          /\ db.pages[p].last_links_recorded_at = Null}
       IN  /\ (pc = "loop" /\ pc' = "claimed")
              => /\ cur' \in Waiting
                 /\ \A q \in Waiting \ {cur'} :
                       \/ Key(cur') < Key(q)
                       \/ Key(cur') = Key(q) /\ cur' < q
           /\ (pc = "loop" /\ outcome' = "empty") => Waiting = {}]_vars

\* A claim has taken a page with an enqueue time although a page with a
\* smaller id and a NULL last_enqueued_at is waiting too.
C19_Witness ==
    /\ pc = "claimed"
    /\ db.pages[cur].last_enqueued_at # Null
    /\ \E q \in Claimable(db.pages) :
          q < cur /\ db.pages[q].last_enqueued_at = Null


C21_Termination ==
    (pc # "stopped") ~> (pc = "stopped" /\ outcome \in {"empty", "budget"})

\* A run has ended on an empty queue after fetches that succeeded and
\* fetches that failed: the store holds a done page and an error page.
C21_Witness ==
    /\ pc = "stopped"
    /\ outcome = "empty"
    /\ InStatus(db, "done") # {}
    /\ InStatus(db, "error") # {}


\* C22: the fetch runs outside any store transaction.  While the process is
\* at the fetch no session holds uncommitted work and no link is waiting to
\* be recorded; the step that opens the persist transaction is the return of
\* the fetch, and the steps into the fetch and out of the claim leave no
\* transaction open.
C22_FetchOutsideTransaction ==
    [][/\ pc' = "fetch" => (sess' = EmptyStore /\ todo' = {})
       /\ pc' = "claimed" => (sess' = EmptyStore /\ todo' = {})
       /\ (sess = EmptyStore /\ sess' # EmptyStore)
          => (pc = "fetch" /\ pc' = "persist" /\ sess' = db)]_vars

\* The process is at the fetch of a later iteration: the claim of the page
\* is committed, edges of an earlier persist are stored, and no session
\* holds anything.
C22_Witness ==
    /\ pc = "fetch"
    /\ db.pages[cur].crawl_status = "in_progress"
    /\ db.links # {}
    /\ sess = EmptyStore


C24_CacheExpansion ==
    [][\A w \in Workers :
         LET p == workers[w].page
         IN  (/\ workers[w].pc = "claimed"
              /\ db.pages[p].last_links_recorded_at # Null
              /\ workers'[w] # workers[w])
             => /\ workers'[w].pc = "loop"
                /\ \/ workers'[w].last = "error"
                   \/ /\ workers'[w].last = "cache"
                      /\ db'.links = db.links
                      /\ DOMAIN db'.pages = DOMAIN db.pages
                      /\ db'.pages[p].crawl_status = "done"
                      /\ db'.pages[p].last_finished_at # Null
                      /\ db'.pages[p].last_links_recorded_at
                             = db.pages[p].last_links_recorded_at
                      /\ \E now \in 1..MaxClock :
                           \A q \in DOMAIN db.pages \ {p} :
                             db'.pages[q] =
                               IF q \in get_outgoing_pages(db, p)
                               THEN enqueue_page(db.pages, q, now)[q]
                               ELSE db.pages[q]]_vars

\* A process has just expanded a page from its stored edges: the page is
\* done, one of its outgoing pages is queued again after an error.
C24_Witness ==
    \E w \in Workers :
        /\ workers[w].pc = "loop"
        /\ workers[w].last = "cache"
        /\ \E p \in DOMAIN db.pages :
             /\ db.pages[p].crawl_status = "done"
             /\ db.pages[p].last_links_recorded_at # Null
             /\ \E q \in get_outgoing_pages(db, p) \ {p} :
                  /\ db.pages[q].crawl_status = "queued"
                  /\ db.pages[q].last_error # Null


\* C27: the claim is exclusive only with one writer.  The write of a claim
\* is not conditioned on the status the read saw: whatever the row's status
\* is by then, the step leaves it in_progress, changes nothing else in the
\* store, and the process goes on with the page it read.  Two processes
\* whose reads and writes interleave can therefore both hold, and both
\* fetch, the same page (the witness).
C27_ClaimNotExclusive ==
    [][\A w \in Workers :
         (workers[w].pc = "read" /\ workers'[w].pc # "read")
         => /\ workers'[w].pc = "claimed"
            /\ workers'[w].page = workers[w].page
            /\ db'.pages[workers[w].page].crawl_status = "in_progress"
            /\ db'.links = db.links
            /\ \A q \in DOMAIN db.pages \ {workers[w].page} :
                 db'.pages[q] = db.pages[q]]_vars

\* Both processes are fetching the same page, and the second write found
\* the row already in_progress.
C27_Witness ==
    /\ \A w \in Workers : workers[w].pc = "fetch"
    /\ workers[1].page = workers[2].page
    /\ \E w \in Workers : workers[w].overwrote = "in_progress"


\* C25: identity collision.  When the persist of a claimed row is given a
\* canonical title that differs from the row's title and is held by another
\* row, the commit leaves the claimed row with last_error set and its title
\* as it was, and leaves the row that holds the title with its key, its
\* title, its crawl-once marker and its error field, and with the edges it
\* had.
C25_IdentityCollision ==
    [][LET page_id == table'.ref.id
           fetch_title == table'.ref.title
       IN  (/\ table' # table
            /\ RowOf(table.pages, page_id).title # fetch_title
            /\ \E r \in table.pages : r.id # page_id /\ r.title = fetch_title)
           => /\ RowOf(table'.pages, page_id).last_error # Null
              /\ RowOf(table'.pages, page_id).title = RowOf(table.pages, page_id).title
              /\ \A r \in table.pages :
                   r.title = fetch_title
                   => \E r2 \in table'.pages :
                        /\ r2.id = r.id
                        /\ r2.title = r.title
                        /\ r2.last_links_recorded_at = r.last_links_recorded_at
                        /\ r2.last_error = r.last_error
                        /\ {l \in table'.links : l.from_page_id = r.id}
                             = {l \in table.links : l.from_page_id = r.id}]_vars


\* C26: a storage failure is run-fatal.  When a store operation of the
\* cache-check or of the persist transaction of a claimed page has raised,
\* the next step of the process ends the run and leaves the store as it is:
\* the page stays in_progress, no error is recorded for it and the loop does
\* not go on.
C26_StorageFailureFatal ==
    [][(/\ pc = "failed"
        /\ exc_at \in {"claimed", "persist_begin", "persist_links"})
       => /\ pc' = "stopped"
          /\ db' = db
          /\ db.pages[cur].crawl_status = "in_progress"]_vars


C29_PersistClearsError ==
    [][\A w \in Workers :
         (workers[w].pc = "fetch" /\ workers'[w].last \in {"fetch", "refetch"})
         => LET page == db'.pages[workers[w].page]
            IN  /\ page.crawl_status = "done"
                /\ page.last_links_recorded_at # Null
                /\ page.last_error = Null
                /\ page.last_finished_at # Null]_vars

\* A page that was marked error has just been fetched again and persisted,
\* and no row carries an error any more.
C29_Witness ==
    /\ \E w \in Workers : workers[w].pc = "loop" /\ workers[w].last = "refetch"
    /\ \A p \in DOMAIN db.pages : db.pages[p].last_error = Null
    /\ InStatus(db, "done") # {}


\* C30: self-links.  When the fetched links of the claimed page contain the
\* page itself, record_links stores the edge from the page to itself and
\* its enqueue_page leaves the row in_progress with its last_enqueued_at;
\* the commit leaves the edge stored and the page done, with its crawl-once
\* marker set and not claimable.
C30_SelfLink ==
    [][/\ (pc' = "persist" /\ cur' \in fetch_links' \ todo')
          => /\ NewPageLink(cur', cur') \in sess'.links
             /\ sess'.pages[cur'].crawl_status = "in_progress"
             /\ sess'.pages[cur'].last_enqueued_at = db'.pages[cur'].last_enqueued_at
       /\ (pc = "persist" /\ pc' = "print" /\ cur \in fetch_links)
          => /\ NewPageLink(cur, cur) \in db'.links
             /\ db'.pages[cur].crawl_status = "done"
             /\ db'.pages[cur].last_links_recorded_at # Null
             /\ db'.pages[cur].last_enqueued_at = db.pages[cur].last_enqueued_at
             /\ cur \notin Claimable(db'.pages)]_vars

\* The persist of a page that links to itself and to another page has
\* committed: the edge to itself is stored, the page is done, the other
\* page is queued.
C30_Witness ==
    /\ pc = "print"
    /\ NewPageLink(cur, cur) \in db.links
    /\ db.pages[cur].crawl_status = "done"
    /\ \E q \in DOMAIN db.pages \ {cur} :
         /\ NewPageLink(cur, q) \in db.links
         /\ db.pages[q].crawl_status = "queued"


\* C31: with one process the cache-expansion branch is dead.  A page that
\* has just been claimed has no links recorded, nothing is committed while
\* the process is between the claim and the re-read, and the process leaves
\* that position only to the fetch, to the except clause or by dying: never
\* to the progress print, where the cache expansion would take it.
C31_CacheBranchDead ==
    [][/\ pc' = "claimed" => db'.pages[cur'].last_links_recorded_at = Null
       /\ (pc = "claimed" /\ pc' # "claimed")
          => /\ pc' \in {"fetch", "failed", "stopped"}
             /\ db' = db]_vars

\* A page found through the recorded links of another page has been
\* claimed and re-read, and is at the fetch.
C31_Witness ==
    /\ pc = "fetch"
    /\ cur \notin HasLinksRecorded(db)
    /\ \E p \in HasLinksRecorded(db) : NewPageLink(p, cur) \in db.links


\* C32: status and crawl-once marker.  In every committed store of the
\* walk of one process a done page has its links recorded and an
\* in_progress page has not.
C32_StatusAndMarker ==
    \A p \in DOMAIN db.pages :
        /\ db.pages[p].crawl_status = "done"
           => db.pages[p].last_links_recorded_at # Null
        /\ db.pages[p].crawl_status = "in_progress"
           => db.pages[p].last_links_recorded_at = Null

\* The store holds a done page and, found through its links, the page that
\* is in_progress.
C32_Witness ==
    /\ pc \in {"claimed", "fetch", "persist"}
    /\ db.pages[cur].crawl_status = "in_progress"
    /\ \E p \in InStatus(db, "done") : NewPageLink(p, cur) \in db.links


\* C33: crawl completeness.  A run with no page budget on an empty store,
\* in which no fetch fails, ends on the empty queue with a row for exactly
\* the pages reachable from the start page over the links of the wiki, all
\* of them done, and with exactly the links of those pages as edges.
C33_CrawlCompleteness ==
    (pc = "stopped" /\ outcome = "empty")
    => /\ DOMAIN db.pages = ReachableFrom({wiki.start})
       /\ \A p \in DOMAIN db.pages : db.pages[p].crawl_status = "done"
       /\ db.links = UNION {{NewPageLink(p, q) : q \in wiki.links[p]}
                             : p \in ReachableFrom({wiki.start})}

\* The run has ended on a wiki whose start page links to another page that
\* links back.
C33_Witness ==
    /\ pc = "stopped"
    /\ outcome = "empty"
    /\ \E q \in Pages \ {wiki.start} :
         /\ q \in wiki.links[wiki.start]
         /\ wiki.start \in wiki.links[q]
         /\ NewPageLink(q, wiki.start) \in db.links

\* C34: crash transparency.  On a given wiki and start page, with no fetch
\* failure, runs that are killed at any point and started again end, once a
\* run reaches the empty queue, in the store one uninterrupted run ends in
\* (C33): the same rows, the same statuses and the same edges.
C34_CrashTransparency ==
    (pc = "stopped" /\ outcome = "empty")
    => LET pages == ReachableFrom({wiki.start})
       IN  [pages |-> DOMAIN db.pages,
            crawl_status |-> [p \in DOMAIN db.pages |-> db.pages[p].crawl_status],
            links |-> db.links]
           = [pages |-> pages,
              crawl_status |-> [p \in pages |-> "done"],
              links |-> {l \in [from_page_id : pages, to_page_id : Pages] :
                            l.to_page_id \in wiki.links[l.from_page_id]}]

\* A run has ended on the empty queue after an earlier run was killed, on a
\* wiki with a link from the start page to another page.
C34_Witness ==
    /\ pc = "stopped"
    /\ outcome = "empty"
    /\ wiki.killed
    /\ wiki.links[wiki.start] \ {wiki.start} # {}


\* C35: the queue-empty end.  When a run has ended because the claim found
\* no page, no row of the store is queued or in_progress: every row is done
\* or error.
C35_QueueEmptyEnd ==
    (pc = "stopped" /\ outcome = "empty")
    => \A p \in DOMAIN db.pages : db.pages[p].crawl_status \in {"done", "error"}

\* A run has ended on the empty queue with a row for every page, edges
\* stored, and a page left in error.
C35_Witness ==
    /\ pc = "stopped"
    /\ outcome = "empty"
    /\ DOMAIN db.pages = Pages
    /\ db.links # {}
    /\ InStatus(db, "error") # {}


\* C38: start page not found.  A start whose title cannot be resolved ends
\* with the process stopped and the store as it was: no row is created and
\* no in_progress page is re-queued.
C38_StartNotFound ==
    [][outcome' = "start_not_found"
       => /\ pc = "stopped"
          /\ pc' = "stopped"
          /\ db' = db]_vars

\* A start was aborted on a store in which a killed process had left a page
\* in_progress: the page still is.
C38_Witness ==
    /\ pc = "stopped"
    /\ outcome = "start_not_found"
    /\ InStatus(db, "in_progress") # {}


\* C37: every edge is written once.  With one process, when the fetch of a
\* page returns the store holds no edge from that page; record_links finds
\* no edge for any link it handles (the fetch result holds one reference
\* per page id), so it only adds edges and never takes the branch that
\* assigns last_seen_at of an existing edge; and no committed edge is ever
\* removed.
C37_EdgeWrittenOnce ==
    [][/\ (pc = "fetch" /\ pc' = "persist")
          => {l \in db.links : l.from_page_id = cur} = {}
       /\ (pc = "persist" /\ pc' = "persist" /\ todo' # todo)
          => /\ \A to \in todo \ todo' : NewPageLink(cur, to) \notin sess.links
             /\ sess'.links = sess.links \cup {NewPageLink(cur, to) : to \in todo \ todo'}
             /\ Cardinality(todo \ todo') = 1
       /\ db.links \subseteq db'.links]_vars

\* The persist of a page with a link to every page has committed: each of
\* its edges was added by that persist.
C37_Witness ==
    /\ pc = "print"
    /\ \A q \in Pages : NewPageLink(cur, q) \in db.links
    /\ InStatus(db, "queued") # {}

\* C36 as stated: when the fetch returns a page whose id differs from the
\* claimed one, the commit leaves the claimed row done with the title of the
\* fetch result, every edge it adds starts at the claimed page, and the row
\* of the id of the fetch result is neither created nor updated.
C36_CanonicalTitleAndRow ==
    [][LET page_id == table'.ref.page_id
           fetch_page == table'.ref
       IN  (table' # table /\ page_id # Null /\ fetch_page.id # page_id)
           => /\ RowOf(table'.pages, page_id).title = fetch_page.title
              /\ RowOf(table'.pages, page_id).crawl_status = "done"
              /\ \A l \in table'.links \ table.links : l.from_page_id = page_id
              /\ IF fetch_page.id \in Ids(table.pages)
                 THEN RowOf(table'.pages, fetch_page.id)
                          = RowOf(table.pages, fetch_page.id)
                 ELSE fetch_page.id \notin Ids(table'.pages)]_vars

\* C36: the persist never reads the page id of the fetch result.  When the
\* fetch returns a page whose id differs from the claimed one, the commit
\* leaves the claimed row done with its links recorded; its title is the
\* title of the fetch result, unless the fetched links hold a reference to
\* the claimed id, whose title it then has.  The edges are those there were
\* and one from the claimed page to each fetched link.  The row of the id of
\* the fetch result is as it was and none is created for it, unless the
\* fetched links hold a reference to that id, which is then stored as any
\* link target is.
C36_PersistUnderClaimedId ==
    [][LET page_id == table'.ref.page_id
           fetch_page == table'.ref
           to_pages == table'.ref.links
           own == {r \in to_pages : r.id = page_id}
           canonical == {r \in to_pages : r.id = fetch_page.id}
       IN  (table' # table /\ page_id # Null /\ fetch_page.id # page_id)
           => /\ RowOf(table'.pages, page_id).title
                    = IF own = {} THEN fetch_page.title
                      ELSE (CHOOSE r \in own : TRUE).title
              /\ RowOf(table'.pages, page_id).crawl_status = "done"
              /\ RowOf(table'.pages, page_id).last_links_recorded_at # Null
              /\ table'.links = table.links
                     \cup {NewPageLink(page_id, r.id) : r \in to_pages}
              /\ IF canonical # {}
                 THEN /\ fetch_page.id \in Ids(table'.pages)
                      /\ RowOf(table'.pages, fetch_page.id).title
                             = (CHOOSE r \in canonical : TRUE).title
                 ELSE IF fetch_page.id \in Ids(table.pages)
                      THEN RowOf(table'.pages, fetch_page.id)
                               = RowOf(table.pages, fetch_page.id)
                      ELSE fetch_page.id \notin Ids(table'.pages)]_vars

\* A persist has committed a fetch result of another id than the claimed
\* one: the claimed row took its title and is done, and the row of the id
\* of the fetch result, not among the links, holds the same title and is not
\* done.
C36_Witness ==
    /\ table.ref.page_id # Null /\ table.ref.id # table.ref.page_id /\ table.ref.changed
    /\ table.ref.links # {} /\ \A r \in table.ref.links : r.id # table.ref.id
    /\ {table.ref.id, table.ref.page_id} \subseteq Ids(table.pages)
    /\ RowOf(table.pages, table.ref.id).title = table.ref.title
    /\ RowOf(table.pages, table.ref.page_id).title = table.ref.title
    /\ RowOf(table.pages, table.ref.id).crawl_status # "done"
    /\ RowOf(table.pages, table.ref.page_id).crawl_status = "done"
====
